---- MODULE Spec2Model ----
(***************************************************************************)
(* PolyFit.cpp: least-squares polynomial fit through the normal equations, *)
(* solved by LU decomposition with partial pivoting.                       *)
(*                                                                         *)
(* The values of type double are modelled twice, and the operations        *)
(* Add, Sub, Mul, Div, Less, Fabs compute in the arithmetic of the values  *)
(* they are given.                                                         *)
(*                                                                         *)
(* Exact: <<n, d, e>> = (n / d) * 10^e in canonical form (d > 0,           *)
(* gcd(n, d) = 1, d coprime to 10, n not a multiple of 10, zero is         *)
(* <<0, 1, 0>>).  No operation rounds.  This is the "exact arithmetic"     *)
(* in which the numerical claims are stated; the exponent lets the model   *)
(* hold the tolerance 1e-12 and values around it.  Spec draws its inputs   *)
(* in this form.                                                           *)
(*                                                                         *)
(* IEEE 754 binary64: <<s, m, e, "f">> = (-1)^s * m * 2^e, m odd and of    *)
(* at most 53 bits, every operation rounded to nearest, ties to even, as   *)
(* the compiled code computes.  SpecIEEE draws its inputs in this form.    *)
(*                                                                         *)
(* A literal of the code (0.0, 1, 1e-12) is written in exact form; it is    *)
(* stored in the form of the values around it (ZeroAs) or converts to the  *)
(* form of the value it meets in an operation (ToF).                       *)
(***************************************************************************)
EXTENDS Integers, Sequences, FiniteSets, TLC

\* ------------------------------------------------------------------------
\* Exact arithmetic
\* ------------------------------------------------------------------------
IAbs(n) == IF n < 0 THEN -n ELSE n

RECURSIVE Gcd(_, _)
Gcd(a, b) == IF b = 0 THEN a ELSE Gcd(b, a % b)

RECURSIVE Pow10(_)
Pow10(k) == IF k = 0 THEN 1 ELSE 10 * Pow10(k - 1)

\* d made coprime to 10: a factor 2 of d becomes a factor 5 of n and one
\* decimal place, a factor 5 of d a factor 2 of n and one decimal place.
RECURSIVE StripDen(_, _, _)
StripDen(n, d, e) ==
    IF d % 2 = 0 THEN StripDen(n * 5, d \div 2, e - 1)
    ELSE IF d % 5 = 0 THEN StripDen(n * 2, d \div 5, e - 1)
    ELSE <<n, d, e>>

RECURSIVE StripNum(_, _, _)
StripNum(n, d, e) ==
    IF n % 10 = 0 THEN StripNum(n \div 10, d, e + 1) ELSE <<n, d, e>>

\* The canonical form of (n / d) * 10^e, d # 0.
Norm(n, d, e) ==
    IF n = 0 THEN <<0, 1, 0>>
    ELSE LET s  == IF d < 0 THEN -1 ELSE 1
             g  == Gcd(IAbs(n), IAbs(d))
             r  == StripDen((s * n) \div g, (s * d) \div g, e)
             g2 == Gcd(IAbs(r[1]), r[2])
         IN  StripNum(r[1] \div g2, r[2] \div g2, r[3])

Zero == <<0, 1, 0>>
One == <<1, 1, 0>>
Int2D(k) == Norm(k, 1, 0)

QNeg(a) == <<-a[1], a[2], a[3]>>

QAdd(a, b) ==
    IF a[1] = 0 THEN b
    ELSE IF b[1] = 0 THEN a
    ELSE LET em == IF a[3] < b[3] THEN a[3] ELSE b[3]
             g  == Gcd(a[2], b[2])
             da == a[2] \div g
             db == b[2] \div g
         IN  Norm(a[1] * Pow10(a[3] - em) * db + b[1] * Pow10(b[3] - em) * da,
                  da * b[2], em)

QSub(a, b) == QAdd(a, QNeg(b))

QMul(a, b) ==
    IF a[1] = 0 \/ b[1] = 0 THEN Zero
    ELSE LET g1 == Gcd(IAbs(a[1]), b[2])
             g2 == Gcd(IAbs(b[1]), a[2])
         IN  Norm((a[1] \div g1) * (b[1] \div g2),
                  (a[2] \div g2) * (b[2] \div g1), a[3] + b[3])

\* a / b; a division by zero does not occur in the code (the pivot check
\* precedes every division), so Div is applied to b # 0 only.
QDiv(a, b) ==
    IF a[1] = 0 THEN Zero
    ELSE LET g1 == Gcd(IAbs(a[1]), IAbs(b[1]))
             g2 == Gcd(a[2], b[2])
         IN  Norm((a[1] \div g1) * (b[2] \div g2),
                  (a[2] \div g2) * (b[1] \div g1), a[3] - b[3])

QFabs(a) == <<IAbs(a[1]), a[2], a[3]>>

\* l * 10^k < r for naturals l, r, k, without forming 10^k
RECURSIVE LtScaled(_, _, _)
LtScaled(l, r, k) ==
    IF l >= r THEN FALSE
    ELSE IF k = 0 THEN TRUE
    ELSE LtScaled(l * 10, r, k - 1)

\* l < r * 10^k for naturals l, r >= 1, k
RECURSIVE LtScaledR(_, _, _)
LtScaledR(l, r, k) ==
    IF l < r THEN TRUE
    ELSE IF k = 0 THEN FALSE
    ELSE LtScaledR(l, r * 10, k - 1)

\* a < b for a, b >= 0
QLessNonNeg(a, b) ==
    IF b[1] = 0 THEN FALSE
    ELSE IF a[1] = 0 THEN TRUE
    ELSE LET l == a[1] * b[2]
             r == b[1] * a[2]
         IN  IF a[3] >= b[3] THEN LtScaled(l, r, a[3] - b[3])
             ELSE LtScaledR(l, r, b[3] - a[3])

\* a < b
QLess(a, b) ==
    IF a[1] < 0 /\ b[1] >= 0 THEN TRUE
    ELSE IF a[1] >= 0 /\ b[1] < 0 THEN FALSE
    ELSE IF a[1] < 0 THEN QLessNonNeg(QNeg(b), QNeg(a))
    ELSE QLessNonNeg(a, b)

\* ------------------------------------------------------------------------
\* Natural numbers of any size: the limbs in base 2^15, least significant
\* first, without leading zero limbs; zero is << >>
\* ------------------------------------------------------------------------
Base == 32768
LimbBits == 15

RECURSIVE Pow2(_)
Pow2(k) == IF k = 0 THEN 1 ELSE 2 * Pow2(k - 1)

RECURSIVE BTrim(_)
BTrim(s) ==
    IF s = <<>> THEN <<>>
    ELSE IF s[Len(s)] = 0 THEN BTrim(SubSeq(s, 1, Len(s) - 1))
    ELSE s

RECURSIVE BFromNat(_)
BFromNat(k) == IF k = 0 THEN <<>> ELSE <<k % Base>> \o BFromNat(k \div Base)

RECURSIVE BToNat(_)
BToNat(s) == IF s = <<>> THEN 0 ELSE s[1] + Base * BToNat(Tail(s))

Limb(s, k) == IF k <= Len(s) THEN s[k] ELSE 0

RECURSIVE BAddFrom(_, _, _, _)
BAddFrom(s, t, k, carry) ==
    IF k > Len(s) /\ k > Len(t)
    THEN IF carry = 0 THEN <<>> ELSE <<carry>>
    ELSE LET v == Limb(s, k) + Limb(t, k) + carry
         IN  <<v % Base>> \o BAddFrom(s, t, k + 1, v \div Base)

BAdd(s, t) == BAddFrom(s, t, 1, 0)

\* s - t for s >= t
RECURSIVE BSubFrom(_, _, _, _)
BSubFrom(s, t, k, borrow) ==
    IF k > Len(s) THEN <<>>
    ELSE LET v == s[k] - Limb(t, k) - borrow
         IN  <<IF v < 0 THEN v + Base ELSE v>>
                 \o BSubFrom(s, t, k + 1, IF v < 0 THEN 1 ELSE 0)

BSub(s, t) == BTrim(BSubFrom(s, t, 1, 0))

\* -1, 0, 1 as s < t, s = t, s > t, comparing from limb k down
RECURSIVE BCmpFrom(_, _, _)
BCmpFrom(s, t, k) ==
    IF k = 0 THEN 0
    ELSE IF s[k] < t[k] THEN -1
    ELSE IF s[k] > t[k] THEN 1
    ELSE BCmpFrom(s, t, k - 1)

BCmp(s, t) ==
    IF Len(s) < Len(t) THEN -1
    ELSE IF Len(s) > Len(t) THEN 1
    ELSE BCmpFrom(s, t, Len(s))

\* s * m + carry for 0 <= m < 2^15
RECURSIVE BMulSmallFrom(_, _, _, _)
BMulSmallFrom(s, m, k, carry) ==
    IF k > Len(s)
    THEN IF carry = 0 THEN <<>> ELSE <<carry>>
    ELSE LET v == s[k] * m + carry
         IN  <<v % Base>> \o BMulSmallFrom(s, m, k + 1, v \div Base)

BMulSmall(s, m) == IF m = 0 THEN <<>> ELSE BMulSmallFrom(s, m, 1, 0)

RECURSIVE BMulFrom(_, _, _)
BMulFrom(s, t, k) ==
    IF k > Len(t) THEN <<>>
    ELSE BAdd(BMulSmall(s, t[k]), BTrim(<<0>> \o BMulFrom(s, t, k + 1)))

BMul(s, t) == BMulFrom(s, t, 1)

RECURSIVE ZeroLimbs(_)
ZeroLimbs(k) == IF k = 0 THEN <<>> ELSE <<0>> \o ZeroLimbs(k - 1)

\* s * 2^k
BShl(s, k) ==
    IF s = <<>> THEN <<>>
    ELSE ZeroLimbs(k \div LimbBits) \o BMulSmall(s, Pow2(k % LimbBits))

\* floor(s / m) for 1 <= m < 2^15, from limb k down with remainder r
RECURSIVE BDivSmallFrom(_, _, _, _)
BDivSmallFrom(s, m, k, r) ==
    IF k = 0 THEN <<>>
    ELSE LET v == r * Base + s[k]
         IN  BDivSmallFrom(s, m, k - 1, v % m) \o <<v \div m>>

\* floor(s / 2^k)
BShr(s, k) ==
    IF k \div LimbBits >= Len(s) THEN <<>>
    ELSE LET t == SubSeq(s, (k \div LimbBits) + 1, Len(s))
         IN  BTrim(BDivSmallFrom(t, Pow2(k % LimbBits), Len(t), 0))

RECURSIVE NatBits(_)
NatBits(k) == IF k = 0 THEN 0 ELSE 1 + NatBits(k \div 2)

BitLen(s) == IF s = <<>> THEN 0 ELSE LimbBits * (Len(s) - 1) + NatBits(s[Len(s)])

BOdd(s) == s # <<>> /\ s[1] % 2 = 1

\* the largest d in lo..hi with t * d <= r, by bisection
RECURSIVE QuotDigit(_, _, _, _)
QuotDigit(r, t, lo, hi) ==
    IF lo = hi THEN lo
    ELSE LET mid == (lo + hi + 1) \div 2
         IN  IF BCmp(BMulSmall(t, mid), r) <= 0
             THEN QuotDigit(r, t, mid, hi)
             ELSE QuotDigit(r, t, lo, mid - 1)

\* <<floor(s / t), s mod t>> for t # 0: long division over the limbs of s
\* from limb k down, with quotient q and remainder r so far
RECURSIVE BDivModFrom(_, _, _, _, _)
BDivModFrom(s, t, k, q, r) ==
    IF k = 0 THEN <<BTrim(q), r>>
    ELSE LET r2 == BTrim(<<s[k]>> \o r)
             d  == QuotDigit(r2, t, 0, Base - 1)
         IN  BDivModFrom(s, t, k - 1, <<d>> \o q, BSub(r2, BMulSmall(t, d)))

BDivMod(s, t) == BDivModFrom(s, t, Len(s), <<>>, <<>>)

\* ------------------------------------------------------------------------
\* IEEE 754 binary64 with round-to-nearest-even: a double is
\*     <<s, m, e, "f">>  =  (-1)^s * m * 2^e
\* with m odd and of at most 53 bits, and zero is <<0, << >>, 0, "f">>.
\* The exponent range is not modelled: no value of the model overflows or
\* is subnormal.
\* ------------------------------------------------------------------------
MantBits == 53

FZero == <<0, <<>>, 0, "f">>

IsF(a) == Len(a) = 4

\* trailing zero bits of a natural k > 0
RECURSIVE NatTz(_)
NatTz(k) == IF k % 2 = 1 THEN 0 ELSE 1 + NatTz(k \div 2)

\* the canonical form of (-1)^s * m * 2^e
RECURSIVE FNorm(_, _, _)
FNorm(s, m, e) ==
    IF m = <<>> THEN FZero
    ELSE IF m[1] = 0 THEN FNorm(s, Tail(m), e + LimbBits)
    ELSE LET z == NatTz(m[1])
         IN  <<s, BShr(m, z), e + z, "f">>

\* (-1)^s * m * 2^e rounded to 53 bits, ties to even
FRound(s, m, e) ==
    IF BitLen(m) <= MantBits THEN FNorm(s, m, e)
    ELSE LET k    == BitLen(m) - MantBits
             q    == BShr(m, k)
             rem  == BSub(m, BShl(q, k))
             c    == BCmp(rem, BShl(<<1>>, k - 1))
             up   == c > 0 \/ (c = 0 /\ BOdd(q))
         IN  FNorm(s, IF up THEN BAdd(q, <<1>>) ELSE q, e + k)

FFromInt(k) == FNorm(IF k < 0 THEN 1 ELSE 0, BFromNat(IF k < 0 THEN -k ELSE k), 0)

FNeg(a) == IF a[2] = <<>> THEN a ELSE <<1 - a[1], a[2], a[3], "f">>

FFabs(a) == <<0, a[2], a[3], "f">>

\* the comparison of |a| and |b|: -1, 0, 1
FCmpMag(a, b) ==
    IF a[2] = <<>> THEN (IF b[2] = <<>> THEN 0 ELSE -1)
    ELSE IF b[2] = <<>> THEN 1
    ELSE LET la == BitLen(a[2]) + a[3]
             lb == BitLen(b[2]) + b[3]
         IN  IF la < lb THEN -1
             ELSE IF la > lb THEN 1
             ELSE LET e == IF a[3] < b[3] THEN a[3] ELSE b[3]
                  IN  BCmp(BShl(a[2], a[3] - e), BShl(b[2], b[3] - e))

FLess(a, b) ==
    IF a[1] = 1 /\ b[1] = 0 THEN a[2] # <<>> \/ b[2] # <<>>
    ELSE IF a[1] = 0 /\ b[1] = 1 THEN FALSE
    ELSE IF a[1] = 1 THEN FCmpMag(a, b) > 0
    ELSE FCmpMag(a, b) < 0

FAdd(a, b) ==
    IF a[2] = <<>> THEN b
    ELSE IF b[2] = <<>> THEN a
    ELSE LET e  == IF a[3] < b[3] THEN a[3] ELSE b[3]
             pa == BShl(a[2], a[3] - e)
             pb == BShl(b[2], b[3] - e)
             c  == BCmp(pa, pb)
         IN  IF a[1] = b[1] THEN FRound(a[1], BAdd(pa, pb), e)
             ELSE IF c = 0 THEN FZero
             ELSE IF c > 0 THEN FRound(a[1], BSub(pa, pb), e)
             ELSE FRound(b[1], BSub(pb, pa), e)

FMul(a, b) ==
    IF a[2] = <<>> \/ b[2] = <<>> THEN FZero
    ELSE FRound((a[1] + b[1]) % 2, BMul(a[2], b[2]), a[3] + b[3])

\* a / b for b # 0: the quotient of the mantissas to at least 55 bits, and
\* one more bit that tells whether the division left a remainder
FDiv(a, b) ==
    IF a[2] = <<>> THEN FZero
    ELSE LET need == BitLen(b[2]) + MantBits + 2 - BitLen(a[2])
             k    == IF need > 0 THEN need ELSE 0
             qr   == BDivMod(BShl(a[2], k), b[2])
             q2   == BAdd(qr[1], qr[1])
             p    == IF qr[2] = <<>> THEN q2 ELSE BAdd(q2, <<1>>)
         IN  FRound((a[1] + b[1]) % 2, p, a[3] - b[3] - k - 1)

\* ------------------------------------------------------------------------
\* The operations of the code on doubles, in the arithmetic of the operands
\* ------------------------------------------------------------------------
RECURSIVE BPow10(_)
BPow10(k) == IF k = 0 THEN <<1>> ELSE BMulSmall(BPow10(k - 1), 10)

\* The double nearest to the exact value (n / d) * 10^e, for values whose
\* numerator and denominator, the power of ten in them, are below 2^53: the
\* two are doubles then and their quotient is rounded once.
ToF(a) ==
    IF IsF(a) THEN a
    ELSE LET num == BMul(BFromNat(IAbs(a[1])), BPow10(IF a[3] > 0 THEN a[3] ELSE 0))
             den == BMul(BFromNat(a[2]), BPow10(IF a[3] < 0 THEN -a[3] ELSE 0))
         IN  FDiv(FRound(IF a[1] < 0 THEN 1 ELSE 0, num, 0), FRound(0, den, 0))

\* the exact value of a double (one whose numerator and denominator are
\* below 2^31)
Exact(a) ==
    IF ~IsF(a) THEN a
    ELSE IF a[2] = <<>> THEN Zero
    ELSE LET n == IF a[1] = 1 THEN -BToNat(a[2]) ELSE BToNat(a[2])
         IN  IF a[3] >= 0 THEN Norm(n * Pow2(a[3]), 1, 0)
             ELSE Norm(n, Pow2(-a[3]), 0)

Neg(a) == IF IsF(a) THEN FNeg(a) ELSE QNeg(a)

Add(a, b) ==
    IF IsF(a) \/ IsF(b) THEN FAdd(ToF(a), ToF(b)) ELSE QAdd(a, b)

Sub(a, b) ==
    IF IsF(a) \/ IsF(b) THEN FAdd(ToF(a), FNeg(ToF(b))) ELSE QSub(a, b)

Mul(a, b) ==
    IF IsF(a) \/ IsF(b) THEN FMul(ToF(a), ToF(b)) ELSE QMul(a, b)

Div(a, b) ==
    IF IsF(a) \/ IsF(b) THEN FDiv(ToF(a), ToF(b)) ELSE QDiv(a, b)

\* fabs
Fabs(a) == IF IsF(a) THEN FFabs(a) ELSE QFabs(a)

\* a < b
Less(a, b) ==
    IF IsF(a) \/ IsF(b) THEN FLess(ToF(a), ToF(b)) ELSE QLess(a, b)

\* ------------------------------------------------------------------------
\* Vectors and matrices: vector<T> of size n is a function on 0..n-1
\* ------------------------------------------------------------------------
Size(v) == Cardinality(DOMAIN v)

EmptyVec == [k \in {} |-> Zero]

\* the literal 0.0 in the arithmetic of the values of v
ZeroAs(v) == IF \E k \in DOMAIN v : IsF(v[k]) THEN FZero ELSE Zero

Vec(s) == [k \in 0..(Len(s) - 1) |-> s[k + 1]]

\* Mutant of Resize: assign(n, 0.0), which drops the prior entries.
ResizeAssign(v, n) == [k \in 0..(n - 1) |-> ZeroAs(v)]

\* vector<double>::resize(n, 0.0): the first n entries are kept, new entries
\* are 0.0
Resize(v, n) == [k \in 0..(n - 1) |-> IF k \in DOMAIN v THEN v[k] ELSE ZeroAs(v)]

\* ------------------------------------------------------------------------
\* LUPDecompose, one pivot column at a time
\* ------------------------------------------------------------------------
\* Mutant of IdentityP: the loop stops at i < N and leaves P[N] at 0.
IdentityPShort(n) == [k \in 0..n |-> IF k < n THEN k ELSE 0]

\* lines 17-18: P[i] = i for i = 0..N
IdentityP(n) == [k \in 0..n |-> k]

\* Mutant of PivotScan: >= in place of >, so the last maximal row wins.
RECURSIVE PivotScanLast(_, _, _, _, _, _)
PivotScanLast(M, n, c, k, m, im) ==
    IF k >= n THEN <<m, im>>
    ELSE IF ~Less(Fabs(M[k][c]), m)
         THEN PivotScanLast(M, n, c, k + 1, Fabs(M[k][c]), k)
         ELSE PivotScanLast(M, n, c, k + 1, m, im)

\* lines 22-30: the scan of rows k..n-1 of column c, from the running
\* maximum m found at row im; a row replaces the maximum only when its
\* magnitude is strictly greater.  The result is <<maxA, imax>>.
RECURSIVE PivotScan(_, _, _, _, _, _)
PivotScan(M, n, c, k, m, im) ==
    IF k >= n THEN <<m, im>>
    ELSE IF Less(m, Fabs(M[k][c]))
         THEN PivotScan(M, n, c, k + 1, Fabs(M[k][c]), k)
         ELSE PivotScan(M, n, c, k + 1, m, im)

PivotSearch(M, n, c) == PivotScan(M, n, c, c, ZeroAs(M[c]), c)

\* lines 36-38 and 40: the exchange of entries (rows) r and s
SwapEntries(f, r, s) == [f EXCEPT ![r] = f[s], ![s] = f[r]]

\* Mutant of ExchangeP: the counter is incremented, the entries stay.
ExchangePCountOnly(perm, r, s, n) == [perm EXCEPT ![n] = perm[n] + 1]

\* lines 36-38 and 41: the exchange in P and the increment of P[N]
ExchangeP(perm, r, s, n) ==
    [SwapEntries(perm, r, s) EXCEPT ![n] = perm[n] + 1]

\* lines 44-50: rows below c get their multiplier in column c and the
\* multiple of row c subtracted right of column c
Eliminate(M, n, c) ==
    [j \in 0..(n - 1) |->
        IF j <= c THEN M[j]
        ELSE LET mult == Div(M[j][c], M[c][c])
             IN  [k \in 0..(n - 1) |->
                    IF k < c THEN M[j][k]
                    ELSE IF k = c THEN mult
                    ELSE Sub(M[j][k], Mul(mult, M[c][k]))]]

\* line 32: maxA < Tol
Degenerate(m, t) == Less(m, t)

\* ------------------------------------------------------------------------
\* LUPSolve: the two substitution sweeps
\* ------------------------------------------------------------------------
\* Mutant of SubDot: += in place of -= on lines 72 and 78.
RECURSIVE SubDotAdd(_, _, _, _, _)
SubDotAdd(M, r, v, k, hi) ==
    IF k >= hi THEN v
    ELSE SubDotAdd(M, r, [v EXCEPT ![r] = Add(v[r], Mul(M[r][k], v[k]))], k + 1, hi)

\* lines 71-72 and 77-78: x[r] -= A[r][k] * x[k] for k = k..hi-1
RECURSIVE SubDot(_, _, _, _, _)
SubDot(M, r, v, k, hi) ==
    IF k >= hi THEN v
    ELSE SubDot(M, r, [v EXCEPT ![r] = Sub(v[r], Mul(M[r][k], v[k]))], k + 1, hi)

\* Mutant of Forward: b[i] in place of b[P[i]] on line 69.
RECURSIVE ForwardNoPerm(_, _, _, _, _, _)
ForwardNoPerm(M, perm, rhs, n, v, r) ==
    IF r >= n THEN v
    ELSE ForwardNoPerm(M, perm, rhs, n,
                       SubDot(M, r, [v EXCEPT ![r] = rhs[r]], 0, r), r + 1)

\* lines 67-73: rows 0..n-1 in ascending order
RECURSIVE Forward(_, _, _, _, _, _)
Forward(M, perm, rhs, n, v, r) ==
    IF r >= n THEN v
    ELSE Forward(M, perm, rhs, n,
                 SubDot(M, r, [v EXCEPT ![r] = rhs[perm[r]]], 0, r), r + 1)

\* lines 75-81: rows n-1..0 in descending order
RECURSIVE Backward(_, _, _, _)
Backward(M, n, v, r) ==
    IF r < 0 THEN v
    ELSE LET w == SubDot(M, r, v, r + 1, n)
         IN  Backward(M, n, [w EXCEPT ![r] = Div(w[r], M[r][r])], r - 1)

Substitute(M, perm, rhs, n, v) ==
    Backward(M, n, Forward(M, perm, rhs, n, v, 0), n - 1)

\* ------------------------------------------------------------------------
\* polyFit: the normal equations
\* ------------------------------------------------------------------------
\* Mutant of SamplePowers: XY[j] += inY[i] on line 139, without the power.
RECURSIVE SamplePowersNoPower(_, _, _, _, _, _, _)
SamplePowersNoPower(xs, ys, nCoef, nPower, j, acc, s) ==
    IF j >= nPower THEN s
    ELSE LET xy == IF j < nCoef
                   THEN [s[1] EXCEPT ![j] = Add(s[1][j], ys)]
                   ELSE s[1]
             xx == [s[2] EXCEPT ![j] = Add(s[2][j], acc)]
         IN  SamplePowersNoPower(xs, ys, nCoef, nPower, j + 1,
                                 IF j + 1 < nPower THEN Mul(acc, xs) ELSE acc,
                                 <<xy, xx>>)

\* lines 135-143: the inner loop of one sample (xs, ys) from power j on;
\* acc is accumulatedPower, s is <<XY, xxSum>>.  The product formed after
\* the last power is never read and is not formed here.
RECURSIVE SamplePowers(_, _, _, _, _, _, _)
SamplePowers(xs, ys, nCoef, nPower, j, acc, s) ==
    IF j >= nPower THEN s
    ELSE LET xy == IF j < nCoef
                   THEN [s[1] EXCEPT ![j] = Add(s[1][j], Mul(ys, acc))]
                   ELSE s[1]
             xx == [s[2] EXCEPT ![j] = Add(s[2][j], acc)]
         IN  SamplePowers(xs, ys, nCoef, nPower, j + 1,
                          IF j + 1 < nPower THEN Mul(acc, xs) ELSE acc,
                          <<xy, xx>>)

\* lines 132-144: the loop over the samples
RECURSIVE Accumulate(_, _, _, _, _, _)
Accumulate(X, Y, nCoef, nPower, k, s) ==
    IF k >= Size(X) THEN s
    ELSE Accumulate(X, Y, nCoef, nPower, k + 1,
                    SamplePowers(X[k], Y[k], nCoef, nPower, 0, One, s))

\* lines 126 and 128: XY and xxSum start as zeros
PowerSums(X, Y, nCoef, nPower) ==
    Accumulate(X, Y, nCoef, nPower, 0,
               <<[k \in 0..(nCoef - 1) |-> Zero], [k \in 0..(nPower - 1) |-> Zero]>>)

\* lines 145-152: XX[i][j] = xxSum[i + j]
NormalMatrix(xxSum, nCoef) ==
    [r \in 0..(nCoef - 1) |-> [c \in 0..(nCoef - 1) |-> xxSum[r + c]]]

\* ------------------------------------------------------------------------
\* The inputs a caller passes
\* ------------------------------------------------------------------------
MaxEntry == 2
MaxSamples == 3
MaxOrder == 2

\* the tolerance LUPSolve passes to LUPDecompose (line 62)
SolveTol == <<1, 1, -12>>

\* the scales of the inputs: 1, 1e-6 (whose square is the tolerance) and
\* 1e-12 (the tolerance)
Small6 == <<1, 1, -6>>
Small12 == <<1, 1, -12>>

IntVals == {Int2D(k) : k \in (-MaxEntry)..MaxEntry}

\* The dimensions of the systems passed to LUPSolve, and of the matrices
\* passed to LUPDecompose with a tolerance of the caller's.
Dims == {1, 2, 3}
DecomposeDims == {1, 2}

\* Entries of the matrices, by dimension.
Entries(n) == IF n <= 2 THEN IntVals ELSE {Int2D(-1), Zero, One}

\* Row scales: a row of the system (of the matrix and of the right-hand
\* side) is a row of small integers times 1 or times 1e-12.
RowScales(n) ==
    IF n <= 2 THEN [0..(n - 1) -> {One, Small12}]
    ELSE {[k \in 0..(n - 1) |-> One]}

ScaleRows(M, rs) == [r \in DOMAIN M |-> [c \in DOMAIN M[r] |-> Mul(rs[r], M[r][c])]]
ScaleVec(v, rs) == [r \in DOMAIN v |-> Mul(rs[r], v[r])]

IntMatrices(n) == [0..(n - 1) -> [0..(n - 1) -> Entries(n)]]

IntRhs(n) ==
    IF n <= 2 THEN {[k \in 0..(n - 1) |-> Int2D(k + 1)], [k \in 0..(n - 1) |-> One]}
    ELSE {[k \in 0..(n - 1) |-> Int2D(k + 1)]}

\* the linear system of the specification's example: A = [[2,1],[1,3]],
\* b = [5,10]
ExampleA == Vec(<<Vec(<<Int2D(2), One>>), Vec(<<One, Int2D(3)>>)>>)
ExampleB == Vec(<<Int2D(5), Int2D(10)>>)

\* tolerances a caller passes to LUPDecompose: 1e-12 and 0.5
Tols == {SolveTol, <<5, 1, -1>>}

\* what the solution vector holds before the call
Stale == Int2D(7)
PriorVecs(n) == {[k \in 0..(n - 1) |-> Stale]}
PriorCoefs == {[k \in 0..(m - 1) |-> Stale] : m \in {1, MaxOrder + 2}}

\* The sample sets: x is a small integer times the scale of the set, 1 or
\* 1e-6, y is a small integer.  The sums polyFit forms do not depend on the
\* order of the samples, so the points of a set are drawn in one order, by
\* non-decreasing index in Points.
XInts == {-1, 0, 1}
YInts == {-1, 0, 1}
Points == [k \in 0..(Cardinality(XInts) * Cardinality(YInts) - 1) |->
              <<(k \div Cardinality(YInts)) - 1, (k % Cardinality(YInts)) - 1>>]
PointSeqs(m) ==
    {s \in [0..(m - 1) -> DOMAIN Points] :
        \A k \in 0..(m - 2) : s[k] <= s[k + 1]}
XScales == {One, Small6}
SampleSets ==
    {[k \in DOMAIN s |-> <<Mul(u, Int2D(Points[s[k]][1])), Int2D(Points[s[k]][2])>>] :
        s \in UNION {PointSeqs(m) : m \in 1..MaxSamples}, u \in XScales}

\* the sample sets of the specification's examples:
\* x = [0,1,2,3], y = [1,3,7,13] and x = [1,1,1], y = [1,2,3]
ExampleFit ==
    Vec(<<<<Zero, One>>, <<One, Int2D(3)>>, <<Int2D(2), Int2D(7)>>,
          <<Int2D(3), Int2D(13)>>>>)
ExampleDegenerate ==
    Vec(<<<<One, One>>, <<One, Int2D(2)>>, <<One, Int2D(3)>>>>)

\* The inputs in binary64.  Integers of a few digits are doubles, and so
\* are their sums and products here, as long as they stay below 2^53; the
\* quotients LUPDecompose forms are rounded.
MatrixValsIEEE == {ToF(Int2D(k)) : k \in {3, 11, 15000, 55000}}
MatricesIEEE == [0..1 -> [0..1 -> MatrixValsIEEE]]
RhsIEEE == Vec(<<ToF(One), ToF(Int2D(2))>>)
StaleIEEE == ToF(Stale)

MaxSamplesIEEE == 2
MaxOrderIEEE == 1
XValsIEEE == {ToF(Int2D(k)) : k \in {1, 2, 5830}}
YValsIEEE == {ToF(Int2D(k)) : k \in {1, 3}}
SampleSetsIEEE ==
    UNION {[0..(m - 1) -> XValsIEEE \X YValsIEEE] : m \in 1..MaxSamplesIEEE}

\* ------------------------------------------------------------------------
\* State
\* ------------------------------------------------------------------------
VARIABLES
    pc,          \* where control is
    entry,       \* the function the caller invoked
    N, A, Tol, P,            \* LUPDecompose: arguments
    i, imax, maxA,           \* LUPDecompose: locals
    decRet,                  \* LUPDecompose: return value, -1 during the call
    b, x, solveRet,          \* LUPSolve: arguments; return value, -1 during the call
    inX, inY, inPolOrder, outPolCoef, errCode,   \* polyFit
    calls,                   \* calls of polyFit made by the caller
    A0, x0, out0,            \* history: A, x, outPolCoef at the call
    nExch,                   \* history: row exchanges performed
    pivots,                  \* history: maxA of the columns searched
    prevErr, prevCoef        \* history: results of the previous polyFit call

vars == <<pc, entry, N, A, Tol, P, i, imax, maxA, decRet, b, x, solveRet,
          inX, inY, inPolOrder, outPolCoef, errCode, calls, A0, x0, out0,
          nExch, pivots, prevErr, prevCoef>>

decVars == <<N, A, Tol, P, i, imax, maxA, decRet>>
fitVars == <<inX, inY, inPolOrder, outPolCoef, errCode, calls, out0, prevErr, prevCoef>>

\* ------------------------------------------------------------------------
\* The calls
\* ------------------------------------------------------------------------
NoFit ==
    /\ inX = EmptyVec /\ inY = EmptyVec /\ inPolOrder = 0
    /\ outPolCoef = EmptyVec /\ out0 = EmptyVec

Locals ==
    /\ i = 0 /\ imax = 0 /\ maxA = Zero /\ decRet = -1 /\ solveRet = -1
    /\ errCode = -1 /\ calls = 0 /\ nExch = 0 /\ pivots = <<>> /\ prevErr = -1
    /\ prevCoef = EmptyVec

InitDecompose ==
    /\ entry = "LUPDecompose" /\ pc = "LUPDecompose"
    /\ N \in DecomposeDims
    /\ \E M \in IntMatrices(N), rs \in RowScales(N) : A = ScaleRows(M, rs)
    /\ A0 = A
    /\ Tol \in Tols
    /\ P = [k \in 0..N |-> 0]
    /\ b = EmptyVec /\ x = EmptyVec /\ x0 = EmptyVec
    /\ NoFit /\ Locals

InitSolve ==
    /\ entry = "LUPSolve" /\ pc = "LUPSolve"
    /\ N \in Dims
    /\ \/ \E M \in IntMatrices(N), v \in IntRhs(N), rs \in RowScales(N) :
             A = ScaleRows(M, rs) /\ b = ScaleVec(v, rs)
       \/ N = 2 /\ A = ExampleA /\ b = ExampleB
    /\ A0 = A
    /\ x \in PriorVecs(N) /\ x0 = x
    /\ Tol = Zero /\ P = EmptyVec
    /\ NoFit /\ Locals

InitFit ==
    /\ entry = "polyFit" /\ pc = "polyFit"
    /\ \E S \in SampleSets \cup {ExampleFit, ExampleDegenerate} :
          /\ inX = [k \in DOMAIN S |-> S[k][1]]
          /\ inY = [k \in DOMAIN S |-> S[k][2]]
    /\ inPolOrder \in 0..MaxOrder
    /\ outPolCoef \in PriorCoefs /\ out0 = outPolCoef
    /\ N = 0 /\ A = EmptyVec /\ A0 = EmptyVec /\ Tol = Zero /\ P = EmptyVec
    /\ b = EmptyVec /\ x = EmptyVec /\ x0 = EmptyVec
    /\ Locals

Init == InitDecompose \/ InitSolve \/ InitFit

\* The same entry points on inputs in binary64.
InitSolveIEEE ==
    /\ entry = "LUPSolve" /\ pc = "LUPSolve"
    /\ N = 2
    /\ A \in MatricesIEEE /\ b = RhsIEEE
    /\ A0 = A
    /\ x = [k \in 0..(N - 1) |-> StaleIEEE] /\ x0 = x
    /\ Tol = Zero /\ P = EmptyVec
    /\ NoFit /\ Locals

InitFitIEEE ==
    /\ entry = "polyFit" /\ pc = "polyFit"
    /\ \E S \in SampleSetsIEEE :
          /\ inX = [k \in DOMAIN S |-> S[k][1]]
          /\ inY = [k \in DOMAIN S |-> S[k][2]]
    /\ inPolOrder \in 0..MaxOrderIEEE
    /\ outPolCoef = [k \in 0..0 |-> StaleIEEE] /\ out0 = outPolCoef
    /\ N = 0 /\ A = EmptyVec /\ A0 = EmptyVec /\ Tol = Zero /\ P = EmptyVec
    /\ b = EmptyVec /\ x = EmptyVec /\ x0 = EmptyVec
    /\ Locals

InitIEEE == InitSolveIEEE \/ InitFitIEEE

\* ------------------------------------------------------------------------
\* polyFit (lines 112-157)
\* ------------------------------------------------------------------------
\* lines 117-154: the coefficient vector is resized, the normal equations
\* are built and LUPSolve is called on them with outPolCoef as x
\* Mutant of FitSums: XY is static, it is zeroed in the first call only and
\* then keeps the sums of the call before (b holds them).
FitSumsStatic ==
    LET nCoef  == inPolOrder + 1
        nPower == nCoef + inPolOrder
    IN  Accumulate(inX, inY, nCoef, nPower, 0,
                   <<IF calls = 0 THEN [k \in 0..(nCoef - 1) |-> Zero] ELSE b,
                     [k \in 0..(nPower - 1) |-> Zero]>>)

\* lines 118-119 and 126-144: <<XY, xxSum>> of the samples
FitSums ==
    LET nCoef  == inPolOrder + 1
        nPower == nCoef + inPolOrder
    IN  PowerSums(inX, inY, nCoef, nPower)

PolyFitBuild ==
    /\ pc = "polyFit"
    /\ LET nCoef  == inPolOrder + 1
           s      == FitSums
       IN  /\ outPolCoef' = Resize(outPolCoef, nCoef)
           /\ A' = NormalMatrix(s[2], nCoef)
           /\ b' = s[1]
           /\ N' = nCoef
           /\ x' = outPolCoef'
    /\ A0' = A' /\ x0' = x'
    /\ calls' = calls + 1
    /\ decRet' = -1 /\ solveRet' = -1
    /\ pc' = "LUPSolve"
    /\ UNCHANGED <<entry, Tol, P, i, imax, maxA, inX, inY,
                   inPolOrder, errCode, out0, nExch, pivots, prevErr, prevCoef>>

\* lines 154-156: LUPSolve has returned; x is outPolCoef
PolyFitReturn ==
    /\ pc = "fit_ret"
    /\ errCode' = solveRet
    /\ outPolCoef' = x
    /\ pc' = "done"
    /\ UNCHANGED <<entry, N, A, Tol, P, i, imax, maxA, decRet, b, x, solveRet,
                   inX, inY, inPolOrder, calls, A0, x0, out0, nExch, pivots,
                   prevErr, prevCoef>>

\* the caller calls polyFit again with the same arguments
PolyFitAgain ==
    /\ pc = "done" /\ entry = "polyFit" /\ calls = 1
    /\ prevErr' = errCode
    /\ prevCoef' = outPolCoef
    /\ out0' = outPolCoef
    /\ pc' = "polyFit"
    /\ UNCHANGED <<entry, N, A, Tol, P, i, imax, maxA, decRet, b, x, solveRet,
                   inX, inY, inPolOrder, outPolCoef, errCode, calls, A0, x0,
                   nExch, pivots>>

\* ------------------------------------------------------------------------
\* LUPSolve (lines 60-90)
\* ------------------------------------------------------------------------
\* lines 62-65: P(N + 1, 0) and the call of LUPDecompose with tol
LUPSolveEnter ==
    /\ pc = "LUPSolve"
    /\ Tol' = SolveTol
    /\ P' = [k \in 0..N |-> 0]
    /\ pc' = "LUPDecompose"
    /\ solveRet' = -1 /\ decRet' = -1
    /\ UNCHANGED <<entry, N, A, i, imax, maxA, b, x, A0, x0, nExch, pivots>>
    /\ UNCHANGED fitVars

SolveReturnPc == IF entry = "polyFit" THEN "fit_ret" ELSE "done"

\* lines 65-81 and 89: the decomposition succeeded
LUPSolveSubstitute ==
    /\ pc = "solve_ret" /\ decRet # 0
    /\ x' = Substitute(A, P, b, N, x)
    /\ solveRet' = 0
    /\ pc' = SolveReturnPc
    /\ UNCHANGED <<entry, b, A0, x0, nExch, pivots>>
    /\ UNCHANGED decVars
    /\ UNCHANGED fitVars

\* lines 83-88: the decomposition failed
LUPSolveFail ==
    /\ pc = "solve_ret" /\ decRet = 0
    /\ solveRet' = 1
    /\ pc' = SolveReturnPc
    /\ UNCHANGED <<entry, b, x, A0, x0, nExch, pivots>>
    /\ UNCHANGED decVars
    /\ UNCHANGED fitVars

\* ------------------------------------------------------------------------
\* LUPDecompose (lines 12-53)
\* ------------------------------------------------------------------------
DecReturnPc == IF entry = "LUPDecompose" THEN "done" ELSE "solve_ret"

\* lines 17-18
DecInit ==
    /\ pc = "LUPDecompose"
    /\ P' = IdentityP(N)
    /\ i' = 0
    /\ nExch' = 0
    /\ pivots' = <<>>
    /\ decRet' = -1
    /\ pc' = "dec_loop"
    /\ UNCHANGED <<entry, N, A, Tol, imax, maxA, b, x, solveRet, A0, x0>>
    /\ UNCHANGED fitVars

\* lines 20-30: the pivot search of column i
DecPivot ==
    /\ pc = "dec_loop" /\ i < N
    /\ LET r == PivotSearch(A, N, i)
       IN  maxA' = r[1] /\ imax' = r[2]
    /\ pivots' = Append(pivots, maxA')
    /\ pc' = "dec_check"
    /\ UNCHANGED <<entry, N, A, Tol, P, i, decRet, b, x, solveRet, A0, x0, nExch>>
    /\ UNCHANGED fitVars

\* line 32
DecFail ==
    /\ pc = "dec_check" /\ Degenerate(maxA, Tol)
    /\ decRet' = 0
    /\ pc' = DecReturnPc
    /\ UNCHANGED <<entry, N, A, Tol, P, i, imax, maxA, b, x, solveRet, A0, x0,
                   nExch, pivots>>
    /\ UNCHANGED fitVars

\* lines 34-42
DecExchange ==
    /\ pc = "dec_check" /\ ~Degenerate(maxA, Tol)
    /\ IF imax # i
       THEN /\ P' = ExchangeP(P, i, imax, N)
            /\ A' = SwapEntries(A, i, imax)
            /\ nExch' = nExch + 1
       ELSE UNCHANGED <<P, A, nExch>>
    /\ pc' = "dec_elim"
    /\ UNCHANGED <<entry, N, Tol, i, imax, maxA, decRet, b, x, solveRet, A0, x0,
                   pivots>>
    /\ UNCHANGED fitVars

\* lines 44-50 and the i++ of line 20
DecEliminate ==
    /\ pc = "dec_elim"
    /\ A' = Eliminate(A, N, i)
    /\ i' = i + 1
    /\ pc' = "dec_loop"
    /\ UNCHANGED <<entry, N, Tol, P, imax, maxA, decRet, b, x, solveRet, A0, x0,
                   nExch, pivots>>
    /\ UNCHANGED fitVars

\* line 52
DecDone ==
    /\ pc = "dec_loop" /\ i >= N
    /\ decRet' = 1
    /\ pc' = DecReturnPc
    /\ UNCHANGED <<entry, N, A, Tol, P, i, imax, maxA, b, x, solveRet, A0, x0,
                   nExch, pivots>>
    /\ UNCHANGED fitVars

Next ==
    \/ PolyFitBuild
    \/ PolyFitReturn
    \/ PolyFitAgain
    \/ LUPSolveEnter
    \/ LUPSolveSubstitute
    \/ LUPSolveFail
    \/ DecInit
    \/ DecPivot
    \/ DecFail
    \/ DecExchange
    \/ DecEliminate
    \/ DecDone

Spec == Init /\ [][Next]_vars

\* the program on inputs in binary64
SpecIEEE == InitIEEE /\ [][Next]_vars

\* ------------------------------------------------------------------------
\* Reference definitions used by the properties
\* ------------------------------------------------------------------------
\* v[0] + ... + v[n-1]
RECURSIVE SumVec(_, _)
SumVec(v, n) == IF n = 0 THEN Zero ELSE Add(SumVec(v, n - 1), v[n - 1])

RECURSIVE ProdVec(_, _)
ProdVec(v, n) == IF n = 0 THEN One ELSE Mul(ProdVec(v, n - 1), v[n - 1])

Dot(u, v, n) == SumVec([k \in 0..(n - 1) |-> Mul(u[k], v[k])], n)

RECURSIVE PowD(_, _)
PowD(a, k) == IF k = 0 THEN One ELSE Mul(a, PowD(a, k - 1))

\* c[0] + c[1] * a + ... + c[d] * a^d
EvalPoly(c, a, d) == SumVec([k \in 0..d |-> Mul(c[k], PowD(a, k))], d + 1)

Minor(M, n, c) ==
    [r \in 0..(n - 2) |-> [k \in 0..(n - 2) |-> M[r + 1][IF k < c THEN k ELSE k + 1]]]

\* the determinant, by expansion along the first row
RECURSIVE Det(_, _)
Det(M, n) ==
    IF n = 0 THEN One
    ELSE IF n = 1 THEN M[0][0]
    ELSE SumVec([c \in 0..(n - 1) |->
                    Mul(IF c % 2 = 0 THEN M[0][c] ELSE Neg(M[0][c]),
                        Det(Minor(M, n, c), n - 1))], n)

\* the determinant of the exact values of the entries is 0
Singular(M, n) ==
    Det([r \in 0..(n - 1) |-> [c \in 0..(n - 1) |-> Exact(M[r][c])]], n) = Zero

\* the factors held by the overwritten matrix
LFactor(M, r, k) == IF k < r THEN M[r][k] ELSE IF k = r THEN One ELSE Zero
UFactor(M, k, c) == IF c >= k THEN M[k][c] ELSE Zero
LUProduct(M, n, r, c) ==
    SumVec([k \in 0..(n - 1) |-> Mul(LFactor(M, r, k), UFactor(M, k, c))], n)

AllPivotsAtLeastTol == \A k \in 1..Len(pivots) : ~Less(pivots[k], Tol)

DistinctX == \A j, k \in DOMAIN inX : j # k => inX[j] # inX[k]

\* the scale of the x-values of the sample set
XScaleOf == IF \E k \in DOMAIN inX : inX[k][3] < 0 THEN Small6 ELSE One

\* polynomials of degree exactly d whose coefficient of x^k is -1, 0 or 1
\* in units of (1/u)^k
KnownPolys(d, u) ==
    {[k \in 0..d |-> Mul(m[k], PowD(Div(One, u), k))] :
        m \in {f \in [0..d -> {Int2D(-1), Zero, One}] : f[d] # Zero}}

Generates(c) == \A k \in DOMAIN inX : inY[k] = EvalPoly(c, inX[k], inPolOrder)

FitReturned == entry = "polyFit" /\ pc = "done"

\* ------------------------------------------------------------------------
\* Properties
\* ------------------------------------------------------------------------
\* C1: when LUPSolve returns for an invertible matrix none of whose pivots
\* fell below the tolerance, it returns 0 and the x it wrote solves the
\* system of the matrix as it was before the call: A0 * x = b.
C1_SolveSolves ==
    (solveRet # -1 /\ Det(A0, N) # Zero /\ AllPivotsAtLeastTol)
        => /\ solveRet = 0
           /\ \A r \in 0..(N - 1) : Dot(A0[r], x, N) = b[r]

C1_Witness ==
    /\ solveRet = 0 /\ A0 = ExampleA /\ b = ExampleB
    /\ x = Vec(<<One, Int2D(3)>>)

\* C2: for a singular matrix LUPDecompose returns 0 and LUPSolve returns 1.
\* Singular is decided on the exact values of the entries before the call.
C2_SingularFails ==
    /\ (decRet # -1 /\ Singular(A0, N)) => decRet = 0
    /\ (solveRet # -1 /\ Singular(A0, N)) => solveRet = 1

\* A = [[11, 55000], [3, 15000]] in binary64, of determinant 0: the
\* multiplier 3/11 is rounded, the second pivot comes out as 2^-39 and not
\* as 0, and LUPSolve returns 0.
C2_Witness ==
    /\ solveRet = 0 /\ decRet = 1 /\ N = 2
    /\ A0 = Vec(<<Vec(<<ToF(Int2D(11)), ToF(Int2D(55000))>>),
                  Vec(<<ToF(Int2D(3)), ToF(Int2D(15000))>>)>>)
    /\ Singular(A0, N)
    /\ ~Less(pivots[2], Tol)

\* C3: when LUPDecompose returns 1, the overwritten matrix and the
\* permutation satisfy P * A0 = L * U, entry by entry.
C3_FactorsProduct ==
    decRet = 1 =>
        \A r, c \in 0..(N - 1) : LUProduct(A, N, r, c) = A0[P[r]][c]

C3_Witness ==
    /\ decRet = 1 /\ N = 3 /\ nExch = 2
    /\ \E r \in 1..2, c \in 0..1 : A[r][c] # Zero /\ c < r

\* C4 as stated: with exactly degree+1 distinct x-values and y-values a known
\* polynomial of that degree takes there, polyFit returns 0 and the
\* coefficients are those of the polynomial.
C4_Original ==
    (FitReturned /\ Size(inX) = inPolOrder + 1 /\ DistinctX)
        => \A c \in KnownPolys(inPolOrder, XScaleOf) :
              Generates(c) => (errCode = 0 /\ outPolCoef = c)

\* C4 as amended: the same, provided no pivot of the normal matrix fell below
\* the tolerance 1e-12.
C4_Interpolates ==
    (FitReturned /\ Size(inX) = inPolOrder + 1 /\ DistinctX /\ AllPivotsAtLeastTol)
        => \A c \in KnownPolys(inPolOrder, XScaleOf) :
              Generates(c) => (errCode = 0 /\ outPolCoef = c)

C4_Witness ==
    /\ FitReturned /\ inPolOrder = 2 /\ Size(inX) = 3 /\ DistinctX
    /\ errCode = 0
    /\ outPolCoef \in KnownPolys(2, One)
    /\ Generates(outPolCoef)

\* C5: when polyFit returns 0 the coefficients c solve the normal equations:
\* for every p in 0..d, sum_i x_i^p * (sum_k c[k] * x_i^k - y_i) = 0.
C5_NormalEquations ==
    (FitReturned /\ errCode = 0) =>
        \A p \in 0..inPolOrder :
            SumVec([k \in DOMAIN inX |->
                      Mul(PowD(inX[k], p),
                          Sub(EvalPoly(outPolCoef, inX[k], inPolOrder), inY[k]))],
                   Size(inX)) = Zero

C5_Witness ==
    /\ FitReturned /\ errCode = 0 /\ inPolOrder = 2
    /\ inX = [k \in DOMAIN ExampleFit |-> ExampleFit[k][1]]
    /\ inY = [k \in DOMAIN ExampleFit |-> ExampleFit[k][2]]
    /\ outPolCoef = Vec(<<One, One, One>>)

\* a least-squares fit with a residual: more samples than coefficients and no
\* polynomial of the degree through them
C5_WitnessResidual ==
    /\ FitReturned /\ errCode = 0 /\ inPolOrder = 1 /\ Size(inX) = 3
    /\ \E k \in DOMAIN inX : EvalPoly(outPolCoef, inX[k], 1) # inY[k]

\* C6: with fewer than degree+1 distinct x-values polyFit returns 1.
C6_TooFewDistinct ==
    (FitReturned /\ Cardinality({inX[k] : k \in DOMAIN inX}) < inPolOrder + 1)
        => errCode = 1

\* x = [5830, 5830], y = [1, 1], degree 1 in binary64: polyFit returns 0.
C6_Witness ==
    /\ FitReturned /\ errCode = 0 /\ inPolOrder = 1
    /\ inX = Vec(<<ToF(Int2D(5830)), ToF(Int2D(5830))>>)
    /\ inY = Vec(<<ToF(One), ToF(One)>>)

\* C7: when LUPDecompose returns 1, P[N] - N is the number of row exchanges
\* performed, and det(A0) = (-1)^(P[N]-N) * (product of the diagonal of A).
C7_SwapCountAndDet ==
    decRet = 1 =>
        /\ P[N] - N = nExch
        /\ Det(A0, N) =
              LET prod == ProdVec([k \in 0..(N - 1) |-> A[k][k]], N)
              IN  IF (P[N] - N) % 2 = 0 THEN prod ELSE Neg(prod)

C7_Witness ==
    /\ decRet = 1 /\ N = 3 /\ P[N] - N = 1
    /\ Less(Det(A0, N), Zero)

C7_WitnessEven ==
    /\ decRet = 1 /\ N = 3 /\ P[N] - N = 2
    /\ Less(Det(A0, N), Zero)

\* C8: polyFit does not change inX and inY, and a second call with the same
\* arguments returns the error code and the coefficients of the first.
C8_SecondCallSame ==
    [][/\ inX' = inX /\ inY' = inY
       /\ (pc' = "done" /\ calls' = 2) =>
             (errCode' = prevErr' /\ outPolCoef' = prevCoef')]_vars

C8_Witness ==
    /\ FitReturned /\ calls = 2 /\ errCode = 0 /\ prevErr = 0
    /\ inPolOrder = 1 /\ outPolCoef # Resize(EmptyVec, 2)

C8_WitnessFail ==
    FitReturned /\ calls = 2 /\ errCode = 1 /\ prevErr = 1

\* the row exchange of lines 36-41 takes place in this step
Exchanged ==
    /\ imax # i
    /\ A' = [A EXCEPT ![i] = A[imax], ![imax] = A[i]]
    /\ P' = [P EXCEPT ![i] = P[imax], ![imax] = P[i], ![N] = P[N] + 1]

NotExchanged == A' = A /\ P' = P

\* the row chosen, imax, is the first row of i..N-1 with the largest
\* magnitude in column i
FirstMaximal ==
    /\ imax \in i..(N - 1)
    /\ maxA = Fabs(A[imax][i])
    /\ \A k \in i..(N - 1) : ~Less(maxA, Fabs(A[k][i]))
    /\ \A k \in i..(imax - 1) : Less(Fabs(A[k][i]), maxA)

\* C9 as stated: at every pivot column the row chosen is the first maximal
\* one, and the rows are exchanged and the counter incremented exactly when
\* that row is not row i.
C9_Original ==
    [][pc = "dec_check" =>
          /\ FirstMaximal
          /\ IF imax # i THEN Exchanged ELSE NotExchanged]_vars

\* C9 as amended: the same for a column whose maximum is not below the
\* tolerance; in a column whose maximum is below it nothing is exchanged.
C9_PivotChoice ==
    [][pc = "dec_check" =>
          /\ FirstMaximal
          /\ IF imax # i /\ ~Less(maxA, Tol) THEN Exchanged ELSE NotExchanged]_vars

\* a tie won by the first row, followed by an exchange
C9_Witness ==
    /\ pc = "dec_elim" /\ imax # i /\ nExch >= 1 /\ N = 3 /\ imax = 1
    /\ Fabs(A[2][i]) = maxA

\* C10: a failed LUPSolve leaves x as it was; after polyFit the coefficient
\* vector has degree+1 entries, and after a failed polyFit they are its prior
\* entries, 0.0 where the resize added one.
C10_FailureWritesNothing ==
    /\ solveRet = 1 => x = x0
    /\ FitReturned =>
          /\ DOMAIN outPolCoef = 0..inPolOrder
          /\ errCode = 1 =>
                \A k \in 0..inPolOrder :
                    outPolCoef[k] = IF k \in DOMAIN out0 THEN out0[k] ELSE ZeroAs(out0)

C10_Witness ==
    /\ FitReturned /\ errCode = 1 /\ inPolOrder = 2 /\ calls = 1
    /\ Size(out0) = 1
    /\ outPolCoef = Vec(<<Stale, Zero, Zero>>)

C10_WitnessSolve ==
    entry = "LUPSolve" /\ pc = "done" /\ solveRet = 1 /\ N = 2 /\ x = Vec(<<Stale, Stale>>)

====
